---- MODULE Spec2Model ----
(***************************************************************************)
(* TrainRigGenerator.py: the "Import Files" button handler import_files    *)
(* and the procedures it calls, as a state machine over the host scene.    *)
(*                                                                         *)
(* The scene is a function from node handles to node records.  The host    *)
(* commands the script uses (group, duplicate, move, rotate, parent,       *)
(* joint, spaceLocator, xform queries) are operators on that function.     *)
(* Coordinates are integer triples <<x, y, z>>.                            *)
(***************************************************************************)
EXTENDS Integers, Sequences, FiniteSets, TLC

(***************************************************************************)
(* Bounds of the model.                                                    *)
(***************************************************************************)
\* Largest value typed into the "Number of Carriages" field.
MaxCarriages == 3
\* Largest number of top-level objects in an imported file.
MaxChildren == 3

(***************************************************************************)
(* Vectors.                                                                *)
(***************************************************************************)
Origin == <<0, 0, 0>>

VAdd(a, b) == <<a[1] + b[1], a[2] + b[2], a[3] + b[3]>>

VSub(a, b) == <<a[1] - b[1], a[2] - b[2], a[3] - b[3]>>

Min2(a, b) == IF a <= b THEN a ELSE b

Max2(a, b) == IF a >= b THEN a ELSE b

VMin(a, b) == <<Min2(a[1], b[1]), Min2(a[2], b[2]), Min2(a[3], b[3])>>

VMax(a, b) == <<Max2(a[1], b[1]), Max2(a[2], b[2]), Max2(a[3], b[3])>>

\* A rotation of 180 degrees about the Y axis through the point p.
RotY180(p, v) == <<2 * p[1] - v[1], v[2], 2 * p[3] - v[3]>>

(***************************************************************************)
(* Names are sequences of characters, so that str.lower() and the          *)
(* substring test `"wheel" in obj.lower()` are computed.                   *)
(***************************************************************************)
LowerChar(c) ==
    CASE c = "W" -> "w" [] c = "H" -> "h" [] c = "E" -> "e" [] c = "L" -> "l"
      [] c = "B" -> "b" [] c = "O" -> "o" [] c = "D" -> "d" [] c = "Y" -> "y"
      [] c = "R" -> "r" [] c = "F" -> "f" [] c = "T" -> "t" [] c = "C" -> "c"
      [] c = "G" -> "g" [] OTHER -> c

Lower(s) == [i \in 1..Len(s) |-> LowerChar(s[i])]

\* Python's `sub in s` on strings.
Contains(sub, s) ==
    \E i \in 1..(Len(s) - Len(sub) + 1) : SubSeq(s, i, i + Len(sub) - 1) = sub

WheelWord == <<"w", "h", "e", "e", "l">>

BodyWord == <<"b", "o", "d", "y">>

(***************************************************************************)
(* The top-level objects a model file may hold: name, rotate pivot and     *)
(* bounding box in the file's coordinates.  Siblings have distinct names   *)
(* in the host, so a file is a sequence of distinct parts.                 *)
(***************************************************************************)
Parts ==
    { [name |-> <<"W", "h", "e", "e", "l", "_", "F">>,
       rp |-> <<-1, 1, -1>>, bbmin |-> <<-2, 0, -2>>, bbmax |-> <<0, 2, 0>>],
      [name |-> <<"r", "_", "W", "H", "E", "E", "L">>,
       rp |-> <<1, 1, -3>>, bbmin |-> <<0, 0, -4>>, bbmax |-> <<2, 2, -2>>],
      [name |-> <<"B", "o", "d", "y">>,
       rp |-> <<0, 2, -2>>, bbmin |-> <<-2, 0, -4>>, bbmax |-> <<2, 4, 0>>] }

Files ==
    { f \in UNION { [1..n -> Parts] : n \in 1..MaxChildren } :
        \A i, j \in 1..Len(f) : i # j => f[i].name # f[j].name }


(***************************************************************************)
(* Node handles.  The script addresses nodes by the names and paths the    *)
(* host returns; a handle here is that name split into the owning group    *)
(* (base, num), the object's own name, and a role suffix.                  *)
(* "Carriage_Group{i + 1}" is (Carriage_Group, i + 1); the host resolves   *)
(* the clash of the duplicated train's name "Train_Group" by numbering     *)
(* it, (Train_Group, 1).  Joints get the host's names joint1, joint2, ...  *)
(***************************************************************************)
Id(base, num, name, role) ==
    [base |-> base, num |-> num, name |-> name, role |-> role]

None == Id("None", 0, <<>>, "none")

World == Id("world", 0, <<>>, "world")

GroupId(base, num) == Id(base, num, <<>>, "group")

JointId(k) == Id("joint", k, <<>>, "joint")

TrackId(k) == Id("Tracks", k, <<>>, "curve")

IkHandleId == Id("ikHandle", 1, <<>>, "ikHandle")

\* f"{obj}_wheel_locator"
LocatorId(obj) == [obj EXCEPT !.role = "wheel_locator"]

Node(kind, parent, children, rp, bbmin, bbmax) ==
    [kind |-> kind, parent |-> parent, children |-> children,
     rp |-> rp, t |-> Origin, ry |-> 0, bbmin |-> bbmin, bbmax |-> bbmax]

(***************************************************************************)
(* Host commands on a scene s.                                             *)
(***************************************************************************)
Remove(seq, x) == SelectSeq(seq, LAMBDA y : y # x)

RECURSIVE Subtree(_, _)
Subtree(s, g) ==
    {g} \cup UNION { Subtree(s, s[g].children[i]) : i \in 1..Len(s[g].children) }

MinOf(S) == CHOOSE m \in S : \A x \in S : m <= x

MaxOf(S) == CHOOSE m \in S : \A x \in S : m >= x

\* cmds.xform(g, query=True, bb=True, ws=True): [xmin, ymin, zmin, xmax, ymax, zmax]
BBox(s, g) ==
    LET geo == { n \in Subtree(s, g) : s[n].kind = "mesh" }
    IN  IF geo = {} THEN <<0, 0, 0, 0, 0, 0>>
        ELSE << MinOf({ s[n].bbmin[1] : n \in geo }),
                MinOf({ s[n].bbmin[2] : n \in geo }),
                MinOf({ s[n].bbmin[3] : n \in geo }),
                MaxOf({ s[n].bbmax[1] : n \in geo }),
                MaxOf({ s[n].bbmax[2] : n \in geo }),
                MaxOf({ s[n].bbmax[3] : n \in geo }) >>

\* cmds.move / cmds.xform(t=..., r=True): a relative translation of g; what
\* is below g moves with it.
Move(s, g, d) ==
    LET sub == Subtree(s, g)
    IN  [n \in DOMAIN s |->
            IF n \in sub
            THEN [s[n] EXCEPT !.rp = VAdd(@, d), !.bbmin = VAdd(@, d),
                              !.bbmax = VAdd(@, d),
                              !.t = IF n = g THEN VAdd(@, d) ELSE @]
            ELSE s[n]]

\* cmds.rotate(0, 180, 0, g, relative=True): about g's rotate pivot.
Rotate180Y(s, g) ==
    LET sub == Subtree(s, g)
        p == s[g].rp
    IN  [n \in DOMAIN s |->
            IF n \in sub
            THEN [s[n] EXCEPT !.rp = RotY180(p, @),
                              !.bbmin = VMin(RotY180(p, s[n].bbmin), RotY180(p, s[n].bbmax)),
                              !.bbmax = VMax(RotY180(p, s[n].bbmin), RotY180(p, s[n].bbmax)),
                              !.ry = IF n = g THEN (@ + 180) % 360 ELSE @]
            ELSE s[n]]

\* cmds.parent(c, p) and cmds.parent(c, world=True): world positions are kept;
\* an object that is already a child of the target is skipped.
Parent(s, c, p) ==
    LET old == s[c].parent
        s1 == IF old # World THEN [s EXCEPT ![old].children = Remove(@, c)] ELSE s
        s2 == IF p # World THEN [s1 EXCEPT ![p].children = Append(@, c)] ELSE s1
    IN  IF old = p THEN s ELSE [s2 EXCEPT ![c].parent = p]

\* cmds.duplicate(g, name=...)[0]: a copy of g and of what is below it, in place.
Duplicate(s, g, num) ==
    LET sub == Subtree(s, g)
        Copy(n) == [n EXCEPT !.num = num]
        new == [c \in { Copy(n) : n \in sub } |->
                  LET n == CHOOSE m \in sub : Copy(m) = c
                  IN  [s[n] EXCEPT !.parent = IF n = g THEN @ ELSE Copy(@),
                                   !.children = [i \in 1..Len(@) |-> Copy(@[i])]]]
    IN  new @@ s

\* cmds.file(path, i=True, returnNewNodes=True) then cmds.group(nodes, name=base):
\* the group's pivot is the centre of what it holds or the world origin, as
\* the host is set up.
ImportAndGroup(s, f, base, pivot_option) ==
    LET g == GroupId(base, 0)
        obj(i) == Id(base, 0, f[i].name, "mesh")
        meshes == [c \in { obj(i) : i \in 1..Len(f) } |->
                     LET i == CHOOSE j \in 1..Len(f) : obj(j) = c
                     IN  Node("mesh", g, <<>>, f[i].rp, f[i].bbmin, f[i].bbmax)]
        lo == << MinOf({ f[i].bbmin[1] : i \in 1..Len(f) }),
                 MinOf({ f[i].bbmin[2] : i \in 1..Len(f) }),
                 MinOf({ f[i].bbmin[3] : i \in 1..Len(f) }) >>
        hi == << MaxOf({ f[i].bbmax[1] : i \in 1..Len(f) }),
                 MaxOf({ f[i].bbmax[2] : i \in 1..Len(f) }),
                 MaxOf({ f[i].bbmax[3] : i \in 1..Len(f) }) >>
        centre == << (lo[1] + hi[1]) \div 2, (lo[2] + hi[2]) \div 2, (lo[3] + hi[3]) \div 2 >>
    IN  (g :> Node("group", World, [i \in 1..Len(f) |-> obj(i)],
                   IF pivot_option = "centre" THEN centre ELSE Origin, lo, hi))
          @@ meshes @@ s

\* cmds.ls("Tracks", long=True)
Ls(s, base) ==
    LET hits == { n \in DOMAIN s : n.base = base }
    IN  [i \in 1..Cardinality(hits) |->
            CHOOSE n \in hits : Cardinality({ m \in hits : m.num < n.num }) = i - 1]

(***************************************************************************)
(* State.                                                                  *)
(***************************************************************************)
VARIABLES
    group_pivot,        \* the host's "group pivot" option: "centre" or "origin"
    train_field,        \* text of the train file field
    carriage_field,     \* text of the carriage file field
    num_carriages_field,\* value of the intField
    add_train_checkbox, \* value of the checkBox
    pc,                 \* position in import_files
    train_path,         \* arguments of the running import_files
    carriage_path,
    num_carriages,
    add_train_at_end,
    train_group,        \* locals of import_files
    carriage_group,
    groups,
    gi,                 \* index of the `for group in groups` loop
    all_locators,
    first_joint,
    last_joint,
    ik_spline_handle,
    scene,              \* the host scene: node handle -> node
    constraints,        \* point and aim constraints of the scene
    warnings,           \* cmds.warning calls, in order
    errors,             \* cmds.error calls, in order
    dialogs,            \* cmds.confirmDialog calls, in order
    exc,                \* the exception in flight
    calls               \* the steps of import_files that ran, in order

gui == <<train_field, carriage_field, num_carriages_field, add_train_checkbox>>

locals == <<train_path, carriage_path, num_carriages, add_train_at_end, train_group, carriage_group, groups, gi,
            all_locators, first_joint, last_joint, ik_spline_handle>>

host == <<scene, constraints, warnings, errors, dialogs>>

vars == <<group_pivot, gui, pc, locals, host, exc, calls>>

\* What the file fields may hold: nothing, a path with no file behind it, a
\* path of a file on disk.
Paths == {"", "missing.mb", "model.mb"}

DiskFiles == {"model.mb"}

\* Curves named "Tracks" that the scene may hold before the import.
TrackScenes ==
    { <<>>,
      TrackId(0) :> Node("curve", World, <<>>, Origin, Origin, Origin),
      (TrackId(0) :> Node("curve", World, <<>>, Origin, Origin, Origin))
        @@ (TrackId(1) :> Node("curve", World, <<>>, Origin, Origin, Origin)) }

Call(op, arg) == [op |-> op, arg |-> arg]

Init ==
    /\ group_pivot \in {"centre", "origin"}
    /\ train_field = ""
    /\ carriage_field = ""
    /\ num_carriages_field = 1
    /\ add_train_checkbox = FALSE
    /\ pc = "idle"
    /\ train_path = ""
    /\ carriage_path = ""
    /\ num_carriages = 0
    /\ add_train_at_end = FALSE
    /\ train_group = None
    /\ carriage_group = None
    /\ groups = <<>>
    /\ gi = 0
    /\ all_locators = <<>>
    /\ first_joint = None
    /\ last_joint = None
    /\ ik_spline_handle = None
    /\ scene \in TrackScenes
    /\ constraints = {}
    /\ warnings = <<>>
    /\ errors = <<>>
    /\ dialogs = <<>>
    /\ exc = "none"
    /\ calls = <<>>

(***************************************************************************)
(* The window.                                                             *)
(***************************************************************************)
\* select_file(train_field), or typing into the field
SetTrainField ==
    /\ pc = "idle"
    /\ \E p \in Paths : p # train_field /\ train_field' = p
    /\ UNCHANGED <<group_pivot, carriage_field, num_carriages_field, add_train_checkbox,
                   pc, locals, host, exc, calls>>

SetCarriageField ==
    /\ pc = "idle"
    /\ \E p \in Paths : p # carriage_field /\ carriage_field' = p
    /\ UNCHANGED <<group_pivot, train_field, num_carriages_field, add_train_checkbox,
                   pc, locals, host, exc, calls>>

\* intField(minValue=1, value=1)
SetNumCarriages ==
    /\ pc = "idle"
    /\ \E n \in 1..MaxCarriages : n # num_carriages_field /\ num_carriages_field' = n
    /\ UNCHANGED <<group_pivot, train_field, carriage_field, add_train_checkbox,
                   pc, locals, host, exc, calls>>

ToggleCheckbox ==
    /\ pc = "idle"
    /\ add_train_checkbox' = ~add_train_checkbox
    /\ UNCHANGED <<group_pivot, train_field, carriage_field, num_carriages_field,
                   pc, locals, host, exc, calls>>

\* The "Import Files" button: import_files(<the four fields' values>).
ClickImport ==
    /\ pc = "idle"
    /\ pc' = "import_train"
    /\ train_path' = train_field
    /\ carriage_path' = carriage_field
    /\ num_carriages' = num_carriages_field
    /\ add_train_at_end' = add_train_checkbox
    /\ UNCHANGED <<group_pivot, gui, train_group, carriage_group, groups, gi, all_locators,
                   first_joint, last_joint, ik_spline_handle, host, exc, calls>>

(***************************************************************************)
(* align_pivots, freeze_transformations, position_carriages.               *)
(***************************************************************************)
MoveToWorldPivot(s, group, target_position) ==
    LET current_pivot == s[group].rp
        offset == VSub(target_position, current_pivot)
    IN  Move(s, group, offset)

AlignPivotsOf(s, tg, cg) ==
    MoveToWorldPivot(MoveToWorldPivot(s, tg, Origin), cg, Origin)

\* makeIdentity(apply=True, t=1, r=1, s=1): the transform attributes of the
\* group and of what is below it are zeroed, nothing moves in the world;
\* then the group's pivot is put at the world origin.
FreezeOne(s, group) ==
    LET sub == Subtree(s, group)
    IN  [n \in DOMAIN s |->
            IF n \in sub
            THEN [s[n] EXCEPT !.t = Origin, !.ry = 0,
                              !.rp = IF n = group THEN Origin ELSE @]
            ELSE s[n]]

RECURSIVE FreezeTransformationsOf(_, _)
FreezeTransformationsOf(s, gs) ==
    IF gs = <<>> THEN s ELSE FreezeTransformationsOf(FreezeOne(s, Head(gs)), Tail(gs))

\* The loop `for i in range(1, num_carriages)` from index i on.
RECURSIVE DuplicateCarriages(_, _, _, _, _)
DuplicateCarriages(s, cg, carriage_length, i, n) ==
    IF i >= n THEN s
    ELSE LET new_carriage == GroupId(cg.base, i + 1)
             dup == Duplicate(s, cg, i + 1)
             moved == Move(dup, new_carriage, <<0, 0, (-carriage_length) * i>>)
         IN  DuplicateCarriages(moved, cg, carriage_length, i + 1, n)

\* last_position after the loop: <<>> is None, <<v>> is the number v.
LastPosition(carriage_length, n) ==
    IF n > 1 THEN << (-carriage_length) * (n - 1) >> ELSE <<>>

\* The list all_groups after the loop.
AllGroupsAfterLoop(tg, cg, n) ==
    <<tg, cg>> \o [i \in 1..(n - 1) |-> GroupId(cg.base, i + 1)]

\* position_carriages: the scene it leaves, the list it returns, the dialog
\* it shows, and whether it raised (None - number, line 202).
PositionCarriagesOf(s, tg, cg, n, at_end) ==
    LET train_bbox == BBox(s, tg)
        train_length == train_bbox[6] - train_bbox[3]
        s1 == Move(s, cg, <<0, 0, -train_length>>)
        carriage_bbox == BBox(s1, cg)
        carriage_length == carriage_bbox[6] - carriage_bbox[3]
        s2 == DuplicateCarriages(s1, cg, carriage_length, 1, n)
        all_groups == AllGroupsAfterLoop(tg, cg, n)
        last_position == LastPosition(carriage_length, n)
        new_train == GroupId(tg.base, 1)
        s3 == Duplicate(s2, tg, 1)
    IN  IF ~at_end
        THEN [scene |-> s2, all_groups |-> all_groups, raised |-> FALSE]
        ELSE IF last_position = <<>>
        THEN [scene |-> s3, all_groups |-> <<>>, raised |-> TRUE]
        ELSE [scene |-> Rotate180Y(
                          Move(s3, new_train,
                               <<0, 0, last_position[1] - (train_length * 2)>>),
                          new_train),
              all_groups |-> Append(all_groups, new_train),
              raised |-> FALSE]

(***************************************************************************)
(* add_locators_to_wheels.                                                 *)
(***************************************************************************)
\* The number a group's name ends with (none for the imported groups); the
\* field's values used here stay below ten.
Digit(k) ==
    IF k = 0 THEN <<>>
    ELSE << <<"1", "2", "3", "4", "5", "6", "7", "8", "9">>[k] >>

BaseChars(base) ==
    IF base = "Train_Group"
    THEN <<"T", "r", "a", "i", "n", "_", "G", "r", "o", "u", "p">>
    ELSE <<"C", "a", "r", "r", "i", "a", "g", "e", "_", "G", "r", "o", "u", "p">>

\* The full path listRelatives(group, children=True, fullPath=True) gives
\* for a child of a top-level group: |<group>|<child>.
FullPath(obj) ==
    <<"|">> \o BaseChars(obj.base) \o Digit(obj.num) \o <<"|">> \o obj.name

IsWheel(obj) == Contains(WheelWord, Lower(FullPath(obj)))

IsBody(obj) == Contains(BodyWord, Lower(FullPath(obj)))

\* The first loop over wheel_objects, from index i on: [scene, added].
RECURSIVE WheelLoop(_, _, _, _, _)
WheelLoop(s, group, wheel_objects, i, added_locators) ==
    IF i > Len(wheel_objects)
    THEN [scene |-> s, added |-> added_locators]
    ELSE LET obj == wheel_objects[i]
             pivot == s[obj].rp
             locator == LocatorId(obj)
             created == (locator :> [Node("locator", World, <<>>, pivot, pivot, pivot)
                                       EXCEPT !.t = pivot]) @@ s
             s1 == Parent(Parent(created, locator, group), obj, locator)
         IN  IF IsWheel(obj)
             THEN WheelLoop(s1, group, wheel_objects, i + 1, Append(added_locators, locator))
             ELSE WheelLoop(s, group, wheel_objects, i + 1, added_locators)

PointConstraint(target, obj) == [type |-> "point", target |-> target, obj |-> obj]

AimConstraint(target, obj) == [type |-> "aim", target |-> target, obj |-> obj]

\* The second loop over wheel_objects, from index i on: [scene, cons, raised].
\* added_locators[1] of the code (0-based) is added_locators[2] here; with
\* one locator only it raises IndexError after the point constraint is made.
RECURSIVE BodyLoop(_, _, _, _, _)
BodyLoop(s, cons, wheel_objects, i, added_locators) ==
    IF i > Len(wheel_objects)
    THEN [scene |-> s, cons |-> cons, raised |-> FALSE]
    ELSE LET obj == wheel_objects[i]
             s1 == [s EXCEPT ![obj].rp = s[added_locators[1]].rp]
             c1 == cons \cup {PointConstraint(added_locators[1], obj)}
             c2 == c1 \cup {AimConstraint(added_locators[2], obj)}
         IN  IF IsBody(obj) /\ added_locators # <<>>
             THEN IF Len(added_locators) < 2
                  THEN [scene |-> s1, cons |-> c1, raised |-> TRUE]
                  ELSE BodyLoop(s1, c2, wheel_objects, i + 1, added_locators)
             ELSE BodyLoop(s, cons, wheel_objects, i + 1, added_locators)

NoChildrenWarning == "No children found in group."

NoWheelsWarning == "No wheels found in the group to add locators."

\* add_locators_to_wheels(group): [scene, cons, added, warned, raised]
AddLocatorsToWheelsOf(s, cons, group) ==
    LET wheel_objects == s[group].children
        w == WheelLoop(s, group, wheel_objects, 1, <<>>)
        b == BodyLoop(w.scene, cons, wheel_objects, 1, w.added)
    IN  IF wheel_objects = <<>>
        THEN [scene |-> s, cons |-> cons, added |-> <<>>,
              warned |-> <<NoChildrenWarning, NoWheelsWarning>>, raised |-> FALSE]
        ELSE [scene |-> b.scene, cons |-> b.cons, added |-> w.added,
              warned |-> IF b.raised \/ w.added # <<>> THEN <<>> ELSE <<NoWheelsWarning>>,
              raised |-> b.raised]

(***************************************************************************)
(* create_skeleton_from_locators.                                          *)
(***************************************************************************)
\* The loop of lines 67-85 from index i on: two joints per locator, the
\* second created below the first (the first is selected when it is made).
RECURSIVE CreateJoints(_, _, _)
CreateJoints(s, locs, i) ==
    IF i > Len(locs) THEN s
    ELSE LET locator_position == s[locs[i]].rp
             pos1 == <<locator_position[1], locator_position[2], locator_position[3] + 1>>
             pos2 == <<locator_position[1], locator_position[2], locator_position[3] - 1>>
             joint1 == JointId(2 * i - 1)
             joint2 == JointId(2 * i)
         IN  CreateJoints(
                 (joint1 :> Node("joint", World, <<joint2>>, pos1, pos1, pos1))
                   @@ (joint2 :> Node("joint", joint1, <<>>, pos2, pos2, pos2)) @@ s,
                 locs, i + 1)

\* joints, in the order they were appended
JointsOf(locs) == [k \in 1..(2 * Len(locs)) |-> JointId(k)]

\* final_parent: the pairs [locator, joint2]
FinalParent(locs) == [i \in 1..Len(locs) |-> <<locs[i], JointId(2 * i)>>]

RECURSIVE UnparentAll(_, _)
UnparentAll(s, js) ==
    IF js = <<>> THEN s ELSE UnparentAll(Parent(s, Head(js), World), Tail(js))

\* x put into a list sorted by key, behind the elements whose key is not larger
RECURSIVE InsertByZ(_, _, _)
InsertByZ(s, sorted, x) ==
    IF sorted = <<>> THEN <<x>>
    ELSE IF s[Head(sorted)].rp[3] <= s[x].rp[3]
         THEN <<Head(sorted)>> \o InsertByZ(s, Tail(sorted), x)
         ELSE <<x>> \o sorted

\* SortedByZ with the sort left out: the joints in creation order.
CreationOrder(s, js) == js

\* sorted(joints, key=z): Python's sort is stable
RECURSIVE SortedByZ(_, _)
SortedByZ(s, js) ==
    IF js = <<>> THEN <<>>
    ELSE InsertByZ(s, SortedByZ(s, SubSeq(js, 1, Len(js) - 1)), js[Len(js)])

\* The loop of lines 104-105 from index i on.
RECURSIVE ChainJoints(_, _, _)
ChainJoints(s, joints_sorted, i) ==
    IF i > Len(joints_sorted) THEN s
    ELSE ChainJoints(Parent(s, joints_sorted[i], joints_sorted[i - 1]), joints_sorted, i + 1)

\* The loop of lines 109-111.
RECURSIVE ParentLocators(_, _)
ParentLocators(s, final_parent) ==
    IF final_parent = <<>> THEN s
    ELSE ParentLocators(Parent(s, Head(final_parent)[1], Head(final_parent)[2]),
                        Tail(final_parent))

\* create_skeleton_from_locators(all_locators) for a non-empty list:
\* [scene, first_joint, last_joint]
CreateSkeletonOf(s, locs) ==
    LET joints == JointsOf(locs)
        s1 == UnparentAll(CreateJoints(s, locs, 1), joints)
        joints_sorted == SortedByZ(s1, joints)
        s2 == ChainJoints(s1, joints_sorted, 2)
    IN  [scene |-> ParentLocators(s2, FinalParent(locs)),
         first_joint |-> joints_sorted[Len(joints_sorted)],
         last_joint |-> joints_sorted[1]]

(***************************************************************************)
(* import_files, one action per step of its body.                          *)
(***************************************************************************)
TrainWarning == "Train file path is invalid or does not exist."

CarriageWarning == "Carriage file path is invalid or does not exist."

SkeletonWarning == "No locators found, skeleton creation skipped."

TracksWarning == "No tracks curve found. Please create a curve named 'Tracks' in the scene."

\* PathValid without the query for the file's existence.
PathValidNotQueried(path) == path # ""

\* `path and cmds.file(path, query=True, exists=True)`
PathValid(path) == path # "" /\ path \in DiskFiles

\* `if train_group and carriage_group`
BothImported(tg, cg) == tg # None /\ cg # None

\* lines 8-12
ImportTrain ==
    /\ pc = "import_train"
    /\ IF PathValid(train_path)
       THEN /\ \E f \in Files : scene' = ImportAndGroup(scene, f, "Train_Group", group_pivot)
            /\ train_group' = GroupId("Train_Group", 0)
            /\ calls' = Append(calls, Call("import_train", GroupId("Train_Group", 0)))
            /\ UNCHANGED warnings
       ELSE /\ warnings' = Append(warnings, TrainWarning)
            /\ UNCHANGED <<scene, train_group, calls>>
    /\ pc' = "import_carriage"
    /\ UNCHANGED <<group_pivot, gui, train_path, carriage_path, num_carriages, add_train_at_end,
                   carriage_group, groups, gi, all_locators, first_joint, last_joint,
                   ik_spline_handle, constraints, errors, dialogs, exc>>

\* lines 15-22
ImportCarriage ==
    /\ pc = "import_carriage"
    /\ IF PathValid(carriage_path)
       THEN /\ \E f \in Files : scene' = ImportAndGroup(scene, f, "Carriage_Group", group_pivot)
            /\ carriage_group' = GroupId("Carriage_Group", 0)
            /\ calls' = Append(calls, Call("import_carriage", GroupId("Carriage_Group", 0)))
            /\ UNCHANGED warnings
       ELSE /\ warnings' = Append(warnings, CarriageWarning)
            /\ UNCHANGED <<scene, carriage_group, calls>>
    /\ pc' = IF BothImported(train_group, carriage_group') THEN "align_pivots" ELSE "done"
    /\ UNCHANGED <<group_pivot, gui, train_path, carriage_path, num_carriages, add_train_at_end,
                   train_group, groups, gi, all_locators, first_joint, last_joint,
                   ik_spline_handle, constraints, errors, dialogs, exc>>

\* AlignPivots with the call of line 24 left out.
AlignPivotsThenPosition ==
    /\ pc = "align_pivots"
    /\ scene' = AlignPivotsOf(scene, train_group, carriage_group)
    /\ calls' = Append(calls, Call("align_pivots", None))
    /\ pc' = "position_carriages"
    /\ UNCHANGED <<group_pivot, gui, locals, constraints, warnings, errors, dialogs, exc>>

\* line 23
AlignPivots ==
    /\ pc = "align_pivots"
    /\ scene' = AlignPivotsOf(scene, train_group, carriage_group)
    /\ calls' = Append(calls, Call("align_pivots", None))
    /\ pc' = "freeze_transformations"
    /\ UNCHANGED <<group_pivot, gui, locals, constraints, warnings, errors, dialogs, exc>>

\* line 24
FreezeTransformations ==
    /\ pc = "freeze_transformations"
    /\ scene' = FreezeTransformationsOf(scene, <<train_group, carriage_group>>)
    /\ calls' = Append(calls, Call("freeze_transformations", None))
    /\ pc' = "position_carriages"
    /\ UNCHANGED <<group_pivot, gui, locals, constraints, warnings, errors, dialogs, exc>>

\* lines 25-26
PositionCarriages ==
    /\ pc = "position_carriages"
    /\ LET r == PositionCarriagesOf(scene, train_group, carriage_group,
                                    num_carriages, add_train_at_end)
       IN  /\ scene' = r.scene
           /\ calls' = Append(calls, Call("position_carriages", None))
           /\ IF r.raised
              THEN /\ exc' = "TypeError"
                   /\ pc' = "except"
                   /\ UNCHANGED <<groups, gi, dialogs>>
              ELSE /\ groups' = r.all_groups
                   /\ dialogs' = Append(dialogs, num_carriages)
                   /\ gi' = 1
                   /\ pc' = "add_locators_to_wheels"
                   /\ UNCHANGED exc
    /\ UNCHANGED <<group_pivot, gui, train_path, carriage_path, num_carriages, add_train_at_end,
                   train_group, carriage_group, all_locators, first_joint, last_joint,
                   ik_spline_handle, constraints, warnings, errors>>

\* lines 27-28, one turn of the loop
AddLocatorsToWheels ==
    /\ pc = "add_locators_to_wheels"
    /\ LET r == AddLocatorsToWheelsOf(scene, constraints, groups[gi])
       IN  /\ scene' = r.scene
           /\ constraints' = r.cons
           /\ warnings' = warnings \o r.warned
           /\ calls' = Append(calls, Call("add_locators_to_wheels", groups[gi]))
           /\ IF r.raised
              THEN /\ exc' = "IndexError"
                   /\ pc' = "except"
                   /\ UNCHANGED <<all_locators, gi>>
              ELSE /\ all_locators' = all_locators \o r.added
                   /\ gi' = gi + 1
                   /\ pc' = IF gi = Len(groups) THEN "create_skeleton_from_locators"
                            ELSE "add_locators_to_wheels"
                   /\ UNCHANGED exc
    /\ UNCHANGED <<group_pivot, gui, train_path, carriage_path, num_carriages, add_train_at_end,
                   train_group, carriage_group, groups, first_joint, last_joint,
                   ik_spline_handle, errors, dialogs>>

\* line 31: the call, and the unpacking of what it returns (None for an
\* empty list, which cannot be unpacked)
CreateSkeletonFromLocators ==
    /\ pc = "create_skeleton_from_locators"
    /\ calls' = Append(calls, Call("create_skeleton_from_locators", None))
    /\ IF all_locators = <<>>
       THEN /\ warnings' = Append(warnings, SkeletonWarning)
            /\ exc' = "TypeError"
            /\ pc' = "except"
            /\ UNCHANGED <<scene, first_joint, last_joint>>
       ELSE LET r == CreateSkeletonOf(scene, all_locators)
            IN  /\ scene' = r.scene
                /\ first_joint' = r.first_joint
                /\ last_joint' = r.last_joint
                /\ pc' = "ik_handle"
                /\ UNCHANGED <<warnings, exc>>
    /\ UNCHANGED <<group_pivot, gui, train_path, carriage_path, num_carriages, add_train_at_end,
                   train_group, carriage_group, groups, gi, all_locators,
                   ik_spline_handle, constraints, errors, dialogs>>

\* IkHandle with the two joints exchanged.
IkHandleExchanged(start, effector, curve) ==
    [startJoint |-> effector, endEffector |-> start, curve |-> curve]

\* cmds.ikHandle(startJoint=..., endEffector=..., curve=..., solver="ikSplineSolver")
IkHandle(start, effector, curve) ==
    [startJoint |-> start, endEffector |-> effector, curve |-> curve]

\* CreateIkHandle binding the last curve found instead of the first.
CreateIkHandleLastCurve ==
    /\ pc = "ik_handle"
    /\ LET tracks == Ls(scene, "Tracks")
       IN  IF tracks # <<>>
           THEN /\ ik_spline_handle' = IkHandle(last_joint, first_joint, tracks[Len(tracks)])
                /\ scene' = (IkHandleId :> Node("ikHandle", World, <<>>, Origin, Origin, Origin))
                              @@ scene
                /\ calls' = Append(calls, Call("ikHandle", tracks[Len(tracks)]))
                /\ UNCHANGED warnings
           ELSE /\ warnings' = Append(warnings, TracksWarning)
                /\ UNCHANGED <<ik_spline_handle, scene, calls>>
    /\ pc' = "done"
    /\ UNCHANGED <<group_pivot, gui, train_path, carriage_path, num_carriages, add_train_at_end,
                   train_group, carriage_group, groups, gi, all_locators,
                   first_joint, last_joint, constraints, errors, dialogs, exc>>

\* lines 34-50
CreateIkHandle ==
    /\ pc = "ik_handle"
    /\ LET tracks == Ls(scene, "Tracks")
       IN  IF tracks # <<>>
           THEN /\ ik_spline_handle' = IkHandle(last_joint, first_joint, tracks[1])
                /\ scene' = (IkHandleId :> Node("ikHandle", World, <<>>, Origin, Origin, Origin))
                              @@ scene
                /\ calls' = Append(calls, Call("ikHandle", tracks[1]))
                /\ UNCHANGED warnings
           ELSE /\ warnings' = Append(warnings, TracksWarning)
                /\ UNCHANGED <<ik_spline_handle, scene, calls>>
    /\ pc' = "done"
    /\ UNCHANGED <<group_pivot, gui, train_path, carriage_path, num_carriages, add_train_at_end,
                   train_group, carriage_group, groups, gi, all_locators,
                   first_joint, last_joint, constraints, errors, dialogs, exc>>

\* ReportError resuming the run at the step behind the one that failed.
ReportErrorAndResume ==
    /\ pc = "except"
    /\ errors' = Append(errors, exc)
    /\ pc' = IF groups = <<>> THEN "done" ELSE "ik_handle"
    /\ UNCHANGED <<group_pivot, gui, locals, scene, constraints, warnings, dialogs, exc, calls>>

\* lines 52-53
ReportError ==
    /\ pc = "except"
    /\ errors' = Append(errors, exc)
    /\ pc' = "done"
    /\ UNCHANGED <<group_pivot, gui, locals, scene, constraints, warnings, dialogs, exc, calls>>

Next ==
    \/ SetTrainField
    \/ SetCarriageField
    \/ SetNumCarriages
    \/ ToggleCheckbox
    \/ ClickImport
    \/ ImportTrain
    \/ ImportCarriage
    \/ AlignPivots
    \/ FreezeTransformations
    \/ PositionCarriages
    \/ AddLocatorsToWheels
    \/ CreateSkeletonFromLocators
    \/ CreateIkHandle
    \/ ReportError

Spec == Init /\ [][Next]_vars

(***************************************************************************)
(* Properties.                                                             *)
(***************************************************************************)
StepNames == [k \in 1..Len(calls) |-> calls[k].op]

HasRun(op) == \E k \in 1..Len(calls) : calls[k].op = op

LastCall == IF calls = <<>> THEN "" ELSE calls[Len(calls)].op

\* The steps of a complete run over ng groups, in the order of the text.
FullOrder(ng) ==
    <<"import_train", "import_carriage", "align_pivots", "freeze_transformations",
      "position_carriages">>
      \o [i \in 1..ng |-> "add_locators_to_wheels"]
      \o <<"create_skeleton_from_locators", "ikHandle">>

PathInvalid(path) == path = "" \/ path \notin DiskFiles

TracksOnly(s) == [n \in { m \in DOMAIN s : m.base = "Tracks" } |-> s[n]]

Joints(s) == { n \in DOMAIN s : s[n].kind = "joint" }

JointChildren(s, j) == { c \in Joints(s) : s[c].parent = j }

\* The joints met walking down from j, at most `fuel` of them.
RECURSIVE WalkChain(_, _, _)
WalkChain(s, j, fuel) ==
    IF fuel = 0 THEN <<>>
    ELSE <<j>> \o (IF JointChildren(s, j) = {} THEN <<>>
                   ELSE WalkChain(s, CHOOSE c \in JointChildren(s, j) : TRUE, fuel - 1))

Range(seq) == { seq[i] : i \in 1..Len(seq) }

\* C1: when both files were imported, the steps that have run are a prefix of
\* import train, import carriage, align_pivots, freeze_transformations,
\* position_carriages, add_locators_to_wheels once per group in the order of
\* the list position_carriages returned, create_skeleton_from_locators, IK
\* handle creation; a run that ends without an error has run them all (the
\* IK handle creation only when a "Tracks" curve exists).
C1_StepOrder ==
    BothImported(train_group, carriage_group) =>
      /\ Len(calls) <= Len(FullOrder(Len(groups)))
      /\ \A k \in 1..Len(calls) : StepNames[k] = FullOrder(Len(groups))[k]
      /\ \A i \in 1..Len(groups) : 5 + i <= Len(calls) => calls[5 + i].arg = groups[i]
      /\ (pc = "done" /\ errors = <<>>) =>
            Len(calls) = IF ik_spline_handle = None THEN Len(FullOrder(Len(groups))) - 1
                         ELSE Len(FullOrder(Len(groups)))

C1_Witness ==
    /\ pc = "done"
    /\ ik_spline_handle # None
    /\ Len(groups) = 4
    /\ LastCall = "ikHandle"

\* C2: with an empty or non-existent train or carriage path, import_files
\* warns once per invalid path, runs none of the steps behind the imports,
\* and a group imported from the other path is in the scene as imported.
C2_InvalidPath ==
    (PathInvalid(train_path) \/ PathInvalid(carriage_path)) =>
      /\ pc \in {"idle", "import_train", "import_carriage", "done"}
      /\ \A k \in 1..Len(calls) : calls[k].op \in {"import_train", "import_carriage"}
      /\ constraints = {} /\ ik_spline_handle = None /\ errors = <<>> /\ dialogs = <<>>
      /\ pc = "done" =>
            /\ warnings = (IF PathInvalid(train_path) THEN <<TrainWarning>> ELSE <<>>)
                            \o (IF PathInvalid(carriage_path) THEN <<CarriageWarning>> ELSE <<>>)
            /\ IF ~PathInvalid(train_path)
               THEN \E f \in Files :
                      scene = ImportAndGroup(TracksOnly(scene), f, "Train_Group", group_pivot)
               ELSE IF ~PathInvalid(carriage_path)
               THEN \E f \in Files :
                      scene = ImportAndGroup(TracksOnly(scene), f, "Carriage_Group", group_pivot)
               ELSE scene = TracksOnly(scene)

C2_Witness ==
    /\ pc = "done"
    /\ train_path = "model.mb"
    /\ carriage_path = "missing.mb"
    /\ GroupId("Train_Group", 0) \in DOMAIN scene
    /\ warnings = <<CarriageWarning>>

C3_State ==
    /\ ik_spline_handle # None =>
         /\ IkHandleId \in DOMAIN scene
         /\ ik_spline_handle.curve \in DOMAIN scene
         /\ ik_spline_handle.curve.base = "Tracks"
         /\ \A n \in DOMAIN scene : n.base = "Tracks" => ik_spline_handle.curve.num <= n.num
    /\ (pc = "done" /\ first_joint # None /\ TracksOnly(scene) = <<>>) =>
         /\ ik_spline_handle = None
         /\ IkHandleId \notin DOMAIN scene
         /\ warnings # <<>> /\ warnings[Len(warnings)] = TracksWarning
         /\ Cardinality({ k \in 1..Len(warnings) : warnings[k] = TracksWarning }) = 1
         /\ errors = <<>>

C3_Step ==
    (pc = "ik_handle" /\ TracksOnly(scene) = <<>>) =>
      /\ scene' = scene
      /\ constraints' = constraints
      /\ pc' = "done"

\* C3: with the skeleton built and no "Tracks" object in the scene, the run
\* warns "No tracks curve found" and creates no IK handle, and the scene is
\* left as it was; an IK handle exists only with a "Tracks" object in the
\* scene, and it is bound to the first one found.
C3_NoTracks == [] C3_State /\ [][C3_Step]_vars

C3_Witness ==
    /\ pc = "done"
    /\ first_joint # None
    /\ TracksOnly(scene) = <<>>
    /\ warnings # <<>> /\ warnings[Len(warnings)] = TracksWarning

C4_State ==
    /\ exc # "none" => pc \in {"except", "done"} /\ ik_spline_handle = None
    /\ pc = "except" => exc # "none" /\ errors = <<>>
    /\ (pc = "done" /\ exc # "none") => errors = <<exc>>
    /\ exc = "none" => errors = <<>>

C4_Step ==
    /\ (exc = "none" /\ exc' # "none") => pc' = "except"
    /\ exc # "none" => /\ calls' = calls
                       /\ scene' = scene
                       /\ constraints' = constraints
                       /\ exc' = exc
    /\ \A n \in DOMAIN scene : n \in DOMAIN scene'

\* C4: a step that raises ends the run there: one error is reported, no step
\* runs after it, nothing is retried, and no node of the scene is ever removed.
C4_Abort == [] C4_State /\ [][C4_Step]_vars

C4_Witness ==
    /\ pc = "done"
    /\ errors = <<"IndexError">>
    /\ all_locators # <<>>
    /\ Len(calls) >= 7

\* The state position_carriages leaves: it was the last step to run.
JustPositioned == LastCall = "position_carriages"

CarriageGroups(s) == { n \in DOMAIN s : n.role = "group" /\ n.base = "Carriage_Group" }

\* The k-th carriage, k = 0 the imported one, k >= 1 named Carriage_Group{k + 1}.
Carriage(k) == GroupId("Carriage_Group", IF k = 0 THEN 0 ELSE k + 1)

ZLength(s, g) == BBox(s, g)[6] - BBox(s, g)[3]

\* C5: for every n >= 1 position_carriages shows "n Carriages moved behind
\* Train" and leaves exactly n carriage groups, the imported one and
\* Carriage_Group2..Carriage_Groupn; with the train at z offset 0 the k-th
\* carriage is at z offset -(train_length + k * carriage_length), behind the
\* train and apart from the others; it returns [train, carriage 0, ...,
\* carriage n-1], followed by the end train when one is asked for.
C5_CarriagesPlaced ==
    JustPositioned =>
      LET n == num_carriages
          train_length == ZLength(scene, train_group)
          carriage_length == ZLength(scene, carriage_group)
      IN  /\ dialogs = <<n>>
          /\ CarriageGroups(scene) = { Carriage(k) : k \in 0..(n - 1) }
          /\ Cardinality(CarriageGroups(scene)) = n
          /\ scene[train_group].t = Origin
          /\ \A k \in 0..(n - 1) :
                /\ Carriage(k) \in DOMAIN scene
                /\ scene[Carriage(k)].t = <<0, 0, -(train_length + k * carriage_length)>>
                /\ scene[Carriage(k)].t[3] < scene[train_group].t[3]
          /\ \A j, k \in 0..(n - 1) :
                j # k => scene[Carriage(j)].t # scene[Carriage(k)].t
          /\ groups = <<train_group>> \o [k \in 1..n |-> Carriage(k - 1)]
                        \o (IF add_train_at_end THEN <<GroupId("Train_Group", 1)>> ELSE <<>>)

\* C6: with the checkbox checked, for every n >= 1, position_carriages
\* duplicates the train, moves the duplicate behind the last carriage,
\* turns it 180 degrees about Y, returns it as the last group, and the run
\* goes on to the locator step without an error.
C6_EndTrain ==
    (JustPositioned /\ add_train_at_end) =>
      LET new_train == GroupId("Train_Group", 1)
          last_carriage == Carriage(num_carriages - 1)
      IN  /\ exc = "none"
          /\ pc = "add_locators_to_wheels"
          /\ new_train \in DOMAIN scene
          /\ scene[new_train].t[3] < scene[last_carriage].t[3]
          /\ scene[new_train].ry = 180
          /\ groups # <<>> /\ groups[Len(groups)] = new_train

\* C7: with no wheel in any group the skeleton step only warns "No locators
\* found, skeleton creation skipped.": no joint, no IK handle, and the run
\* ends without reporting an error.
C7_NoLocators ==
    (HasRun("create_skeleton_from_locators") /\ all_locators = <<>>) =>
      /\ \E k \in 1..Len(warnings) : warnings[k] = SkeletonWarning
      /\ Joints(scene) = {}
      /\ ik_spline_handle = None
      /\ exc = "none"
      /\ errors = <<>>

\* C8: for L >= 1 locators create_skeleton_from_locators makes exactly 2L
\* joints, at z+1 and z-1 of each locator (same x and y), and leaves them as
\* one chain: one root, every other joint below a joint, no joint with two
\* joint children, no cycle, z never decreasing from the root down, the root
\* having the smallest z.
C8_Skeleton ==
    HasRun("create_skeleton_from_locators") /\ all_locators # <<>> =>
      LET L == Len(all_locators)
          J == Joints(scene)
          roots == { j \in J : scene[j].parent = World }
          root == CHOOSE j \in roots : TRUE
          walk == WalkChain(scene, root, 2 * L)
      IN  /\ Cardinality(J) = 2 * L
          /\ \A i \in 1..L :
                \E j1, j2 \in J :
                  /\ j1 # j2
                  /\ j1 = JointId(2 * i - 1) /\ j2 = JointId(2 * i)
                  /\ scene[j1].rp = VAdd(scene[all_locators[i]].rp, <<0, 0, 1>>)
                  /\ scene[j2].rp = VAdd(scene[all_locators[i]].rp, <<0, 0, -1>>)
          /\ Cardinality(roots) = 1
          /\ \A j \in J \ roots : scene[j].parent \in J
          /\ \A j \in J : Cardinality(JointChildren(scene, j)) <= 1
          /\ Len(walk) = 2 * L /\ Range(walk) = J
          /\ \A k \in 1..(Len(walk) - 1) : scene[walk[k]].rp[3] <= scene[walk[k + 1]].rp[3]
          /\ \A j \in J : scene[root].rp[3] <= scene[j].rp[3]

\* several locators, two joints at the same z, and creation order not z order
C8_Witness ==
    /\ pc = "ik_handle"
    /\ Len(all_locators) >= 3
    /\ \E j, k \in Joints(scene) : j # k /\ scene[j].rp[3] = scene[k].rp[3]
    /\ \E j, k \in Joints(scene) : j.num < k.num /\ scene[j].rp[3] > scene[k].rp[3]

\* C9: an IK handle starts at the root of the chain (smallest z, last_joint)
\* and ends at its tip (largest z, first_joint), so it spans all 2L joints;
\* every locator is then below the z-1 joint made from it, its wheel below it.
C9_IkSpansChain ==
    ik_spline_handle # None =>
      LET L == Len(all_locators)
          J == Joints(scene)
          start == ik_spline_handle.startJoint
          tip == ik_spline_handle.endEffector
          walk == WalkChain(scene, start, 2 * L)
      IN  /\ start = last_joint /\ tip = first_joint
          /\ start \in J /\ tip \in J
          /\ scene[start].parent = World
          /\ JointChildren(scene, tip) = {}
          /\ \A j \in J : scene[start].rp[3] <= scene[j].rp[3] /\ scene[j].rp[3] <= scene[tip].rp[3]
          /\ Len(walk) = 2 * L /\ Range(walk) = J /\ walk[Len(walk)] = tip
          /\ \A i \in 1..L :
                LET loc == all_locators[i]
                    wheel == [loc EXCEPT !.role = "mesh"]
                IN  /\ scene[loc].parent \in J
                    /\ scene[scene[loc].parent].rp = VAdd(scene[loc].rp, <<0, 0, -1>>)
                    /\ scene[loc].parent = JointId(2 * i)
                    /\ wheel \in DOMAIN scene
                    /\ scene[wheel].parent = loc
                    /\ scene[loc].children = <<wheel>>

C9_Witness ==
    /\ ik_spline_handle # None
    /\ Len(all_locators) >= 4
    /\ add_train_at_end

NameHas(word, obj) == Contains(word, Lower(obj.name))

C10_Step ==
    pc = "add_locators_to_wheels" =>
      LET group == groups[gi]
          kids == scene[group].children
          wheels == SelectSeq(kids, LAMBDA c : NameHas(WheelWord, c))
          locs == [i \in 1..Len(wheels) |-> LocatorId(wheels[i])]
      IN  /\ exc' = "none"
          /\ all_locators' = all_locators \o locs
          /\ \A i \in 1..Len(wheels) :
                /\ scene'[locs[i]].rp = scene[wheels[i]].rp
                /\ scene'[locs[i]].parent = group
                /\ scene'[wheels[i]].parent = locs[i]
          /\ \A c \in Range(kids) : ~NameHas(WheelWord, c) => scene'[c].parent = group
          /\ \A c \in Range(kids) :
                (NameHas(BodyWord, c) /\ wheels # <<>>) =>
                  /\ PointConstraint(locs[1], c) \in constraints'
                  /\ Len(locs) >= 2
                  /\ AimConstraint(locs[2], c) \in constraints'

\* C10: for every group add_locators_to_wheels returns without error one
\* locator per child whose name contains "wheel" (any case), in child order,
\* each at its wheel's pivot, below the group and above its wheel; other
\* children stay where they are; with at least one wheel every "body" child
\* is point-constrained to the first locator and aim-constrained to the second.
C10_Locators == [][C10_Step]_vars
====
